---- MODULE Spec2Model ----
(***************************************************************************)
(* A model of dynamodb_mapping.DynamoDBMapping: the key codec, the mapping *)
(* facade over a DynamoDB table, the update compiler of modify_item, the   *)
(* item accessor and the lazy scan generator.                              *)
(*                                                                         *)
(* Python values are records [type, val, items]: `type` is the Python      *)
(* type name, `val` the content of a primitive as a sequence of one-letter *)
(* strings (the characters of a str, the bytes of a bytes, the digits of a *)
(* number) and `items` the elements of a tuple or a list.                  *)
(***************************************************************************)
EXTENDS Integers, Sequences, FiniteSets, TLC

VARIABLES key_names, table, op, accessor, iters

vars == <<key_names, table, op, accessor, iters>>

(***************************************************************************)
(* Bounds of the model.                                                    *)
(***************************************************************************)
\* The longest tuple handed to the key codec.
MaxKeyLen == 3

\* The most entries of a modification mapping handed to the update compiler.
MaxMods == 2

(***************************************************************************)
(* Python values.                                                          *)
(***************************************************************************)
PyStr(s) == [type |-> "str", val |-> s, items |-> <<>>]

PyBytes(s) == [type |-> "bytes", val |-> s, items |-> <<>>]

PyByteArray(s) == [type |-> "bytearray", val |-> s, items |-> <<>>]

PyInt(s) == [type |-> "int", val |-> s, items |-> <<>>]

PyDecimal(s) == [type |-> "Decimal", val |-> s, items |-> <<>>]

PyFloat(s) == [type |-> "float", val |-> s, items |-> <<>>]

None == [type |-> "NoneType", val |-> <<>>, items |-> <<>>]

PyTuple(s) == [type |-> "tuple", val |-> <<>>, items |-> s]

PyList(s) == [type |-> "list", val |-> <<>>, items |-> s]

\* DynamoDBKeyPrimitiveTypes = (str, bytes, bytearray, int, Decimal)
DynamoDBKeyPrimitiveTypes == {"str", "bytes", "bytearray", "int", "Decimal"}

\* The types for which isinstance(key, Iterable) is true.
IterableTypes == {"str", "bytes", "bytearray", "tuple", "list"}

\* The elements iter(v) yields: the items of a tuple or list, the
\* one-character strings of a str, the integers of a bytes or bytearray.
Iterate(v) ==
    CASE v.type \in {"tuple", "list"} -> v.items
      [] v.type = "str" -> [i \in 1..Len(v.val) |-> PyStr(<<v.val[i]>>)]
      [] OTHER -> [i \in 1..Len(v.val) |-> PyInt(<<v.val[i]>>)]

\* len(v)
PyLen(v) == IF v.type \in {"tuple", "list"} THEN Len(v.items) ELSE Len(v.val)

(***************************************************************************)
(* The key codec.                                                          *)
(***************************************************************************)
simplify_tuple_keys(key) ==
    IF PyLen(key) = 1 THEN Iterate(key)[1] ELSE key

\* A bug: every iterable is decomposed, the primitive ones too.
create_tuple_keys_any_iterable(key) ==
    IF key.type \in IterableTypes
        THEN PyTuple(Iterate(key))
        ELSE PyTuple(<<key>>)

create_tuple_keys(key) ==
    IF key.type \notin DynamoDBKeyPrimitiveTypes /\ key.type \in IterableTypes
        THEN PyTuple(Iterate(key))
        ELSE PyTuple(<<key>>)

(***************************************************************************)
(* Inputs of the key codec.                                                *)
(***************************************************************************)
\* Primitive key values, one or more of each primitive type.
KeyPrimitives ==
    { PyStr(<<"a">>), PyStr(<<"a", "b">>), PyBytes(<<"a", "b">>),
      PyByteArray(<<"a">>), PyInt(<<"1">>), PyDecimal(<<"2">>) }

\* The primitives tuples are built from.
TupleElements == { PyStr(<<"a">>), PyStr(<<"a", "b">>), PyBytes(<<"a", "b">>) }

SeqsUpTo(S, n) == UNION { [1..k -> S] : k \in 0..n }

KeyTuples == { PyTuple(s) : s \in SeqsUpTo(TupleElements, MaxKeyLen) }

\* What a caller may hand to create_tuple_keys.
CodecInputs ==
    KeyPrimitives \cup KeyTuples \cup { PyFloat(<<"1">>), PyList(<<PyStr(<<"a">>)>>) }

\* The state before any operation.
NoOp == [name |-> <<>>]

(***************************************************************************)
(* The codec specification: a caller applies the two functions, one on the *)
(* result of the other.                                                    *)
(***************************************************************************)
InitCodec ==
    /\ key_names = <<"pk">>
    /\ table = <<>>
    /\ op = NoOp
    /\ accessor = <<>>
    /\ iters = <<>>

CallCreateTupleKeys ==
    /\ \E k \in CodecInputs :
        op' = [name |-> <<"create_tuple_keys">>, arg |-> k,
               ret |-> create_tuple_keys(k)]
    /\ UNCHANGED <<key_names, table, accessor, iters>>

CallSimplifyTupleKeys ==
    /\ \E n \in KeyTuples :
        /\ Len(n.items) >= 1
        /\ op' = [name |-> <<"simplify_tuple_keys">>, arg |-> n,
                  ret |-> simplify_tuple_keys(n)]
    /\ UNCHANGED <<key_names, table, accessor, iters>>

\* simplify_tuple_keys on the tuple create_tuple_keys has just returned.
ThenSimplifyTupleKeys ==
    /\ op.name = <<"create_tuple_keys">>
    /\ op' = [name |-> <<"create_tuple_keys", "simplify_tuple_keys">>,
              arg |-> op.arg, ret |-> simplify_tuple_keys(op.ret)]
    /\ UNCHANGED <<key_names, table, accessor, iters>>

\* create_tuple_keys on the key simplify_tuple_keys has just returned.
ThenCreateTupleKeys ==
    /\ op.name = <<"simplify_tuple_keys">>
    /\ op' = [name |-> <<"simplify_tuple_keys", "create_tuple_keys">>,
              arg |-> op.arg, ret |-> create_tuple_keys(op.ret)]
    /\ UNCHANGED <<key_names, table, accessor, iters>>

NextCodec ==
    \/ CallCreateTupleKeys
    \/ CallSimplifyTupleKeys
    \/ ThenSimplifyTupleKeys
    \/ ThenCreateTupleKeys

SpecCodec == InitCodec /\ [][NextCodec]_vars

(***************************************************************************)
(* C1                                                                      *)
(***************************************************************************)
IsPrimitive(k) == k.type \in DynamoDBKeyPrimitiveTypes

IsTupleOfPrimitives(k) ==
    k.type = "tuple" /\ \A i \in 1..Len(k.items) : IsPrimitive(k.items[i])

\* C1, as claimed: for every simplified key k, a primitive or a tuple of
\* primitives, simplify_tuple_keys(create_tuple_keys(k)) = k; for every native
\* key tuple n of length 1 or 2, create_tuple_keys(simplify_tuple_keys(n)) = n;
\* a primitive is wrapped as a one-element tuple, never decomposed.
C1_RoundTripAnyTuple ==
    /\ (/\ op.name = <<"create_tuple_keys", "simplify_tuple_keys">>
        /\ (IsPrimitive(op.arg) \/ IsTupleOfPrimitives(op.arg)))
            => op.ret = op.arg
    /\ (/\ op.name = <<"simplify_tuple_keys", "create_tuple_keys">>
        /\ IsTupleOfPrimitives(op.arg)
        /\ Len(op.arg.items) \in {1, 2})
            => op.ret = op.arg
    /\ (op.name = <<"create_tuple_keys">> /\ IsPrimitive(op.arg))
            => op.ret = PyTuple(<<op.arg>>)

\* C1, amended: the first round trip holds for a primitive and for a tuple of
\* primitives whose length is not 1 (a one-element tuple simplifies to its
\* element); the second round trip and the wrapping of primitives hold as
\* claimed.
C1_RoundTrip ==
    /\ (/\ op.name = <<"create_tuple_keys", "simplify_tuple_keys">>
        /\ \/ IsPrimitive(op.arg)
           \/ (IsTupleOfPrimitives(op.arg) /\ Len(op.arg.items) # 1))
            => op.ret = op.arg
    /\ (/\ op.name = <<"simplify_tuple_keys", "create_tuple_keys">>
        /\ IsTupleOfPrimitives(op.arg)
        /\ Len(op.arg.items) \in {1, 2})
            => op.ret = op.arg
    /\ (op.name = <<"create_tuple_keys">> /\ IsPrimitive(op.arg))
            => op.ret = PyTuple(<<op.arg>>)

\* A bytes key of two bytes has gone through create_tuple_keys and back.
C1_Witness ==
    /\ op.name = <<"create_tuple_keys", "simplify_tuple_keys">>
    /\ op.arg = PyBytes(<<"a", "b">>)
    /\ op.ret = op.arg

(***************************************************************************)
(* Python dictionaries and strings.                                        *)
(*                                                                         *)
(* A dict whose order is not observed (an item, the keyword arguments of a *)
(* call) is a function on its keys.  The modifications of modify_item are  *)
(* iterated in order: a sequence of <<name, value>> pairs with distinct    *)
(* names.  A str built by the code is the sequence of the pieces it is     *)
(* built from; Text gives the characters.                                  *)
(***************************************************************************)
EmptyDict == <<>>

\* F(e), with e evaluated once whatever the number of places F uses it in:
\* the "x = e" of a Python assignment.
Bind(e, F(_)) == CHOOSE r \in {F(x) : x \in {e}} : TRUE

\* dict(d, **{k: v}): d with k set to v.
DictSet(d, k, v) == (k :> v) @@ d

\* d without k.
DictDel(d, k) == [x \in (DOMAIN d) \ {k} |-> d[x]]

\* {name: value for name, value in zip(names, values)}
DictZip(names, values) ==
    LET n == IF Len(names) < Len(values) THEN Len(names) ELSE Len(values)
    IN  [a \in {names[i] : i \in 1..n} |->
            values[CHOOSE i \in 1..n :
                names[i] = a /\ \A j \in (i + 1)..n : names[j] # a]]

RECURSIVE Text(_)
Text(pieces) ==
    IF pieces = <<>> THEN "" ELSE Head(pieces) \o Text(Tail(pieces))

\* sep.join(parts), each part and the result a sequence of pieces.
RECURSIVE Join(_, _)
Join(sep, parts) ==
    IF parts = <<>> THEN <<>>
    ELSE IF Len(parts) = 1 THEN parts[1]
    ELSE parts[1] \o <<sep>> \o Join(sep, Tail(parts))

(***************************************************************************)
(* What a method does: the exception it raises ("" for none), the value it *)
(* returns, the calls it makes on the boto3 table in order, the table they *)
(* leave, the warnings it emits through warnings.warn and the levels of   *)
(* the records it logs.                                                    *)
(***************************************************************************)
Done(raised, ret, calls, tbl, warned, logged) ==
    [raised |-> raised, ret |-> ret, calls |-> calls, table |-> tbl,
     warned |-> warned, logged |-> logged]

Call(method, kwargs) == [method |-> method, kwargs |-> kwargs]

(***************************************************************************)
(* The boto3 table resource.  The table maps the values of the key schema  *)
(* attributes, in schema order, to the item stored under them.             *)
(***************************************************************************)
\* The values of the key attributes of a Key parameter or of an item.
NativeKey(d) == [i \in 1..Len(key_names) |-> d[key_names[i]]]

KeyNameSet == {key_names[i] : i \in 1..Len(key_names)}

\* Table.get_item: the response holds "Item" when the item exists.
table_get_item(tbl, kwargs) ==
    IF NativeKey(kwargs.Key) \in DOMAIN tbl
        THEN [Item |-> tbl[NativeKey(kwargs.Key)]]
        ELSE EmptyDict

\* Table.put_item: an unconditional overwrite.
table_put_item(tbl, kwargs) ==
    (NativeKey(kwargs.Item) :> kwargs.Item) @@ tbl

\* Table.delete_item: deleting an absent item is not an error.
table_delete_item(tbl, kwargs) ==
    [k \in (DOMAIN tbl) \ {NativeKey(kwargs.Key)} |-> tbl[k]]

\* The pieces of an expression between the pieces equal to sep.
RECURSIVE SplitOn(_, _)
SplitOn(pieces, sep) ==
    IF \A i \in 1..Len(pieces) : pieces[i] # sep
        THEN <<pieces>>
        ELSE LET i == CHOOSE i \in 1..Len(pieces) :
                        pieces[i] = sep /\ \A j \in 1..(i - 1) : pieces[j] # sep
             IN  Bind(SubSeq(pieces, i + 1, Len(pieces)),
                      LAMBDA rest : <<SubSeq(pieces, 1, i - 1)>> \o SplitOn(rest, sep))

\* kwargs[name], or the empty dict when the argument is not given.
KwargOr(kwargs, name) ==
    IF name \in DOMAIN kwargs THEN kwargs[name] ELSE EmptyDict

\* Whether the terms of a clause fit its keyword: assignments "n = v" after
\* "set ", names after "remove ".
WellFormedClause(c) ==
    /\ Len(c) >= 2
    /\ Bind(SplitOn(Tail(c), ", "), LAMBDA terms :
            \/ /\ c[1] = "set "
               /\ \A i \in 1..Len(terms) : Len(terms[i]) = 3 /\ terms[i][2] = " = "
            \/ /\ c[1] = "remove "
               /\ \A i \in 1..Len(terms) : Len(terms[i]) = 1)

\* The terms of the clause that starts with head, none when there is none.
TermsOf(clauses, head) ==
    IF \E i \in 1..Len(clauses) : clauses[i][1] = head
        THEN SplitOn(Tail(clauses[CHOOSE i \in 1..Len(clauses) :
                                        clauses[i][1] = head]), ", ")
        ELSE <<>>

\* The update expression as DynamoDB reads it: one or two clauses separated
\* by a space, "set " with assignments or "remove " with names, the terms of
\* a clause separated by ", ".  ok is FALSE for any other text.
ParseUpdateExpression(pieces) ==
    Bind(SplitOn(pieces, " "), LAMBDA clauses :
        IF /\ Len(clauses) \in {1, 2}
           /\ \A i \in 1..Len(clauses) : WellFormedClause(clauses[i])
           /\ Len(clauses) = 2 => clauses[1][1] # clauses[2][1]
            THEN [ok |-> TRUE, sets |-> TermsOf(clauses, "set "),
                  removes |-> TermsOf(clauses, "remove ")]
            ELSE [ok |-> FALSE, sets |-> <<>>, removes |-> <<>>])

\* item after the assignments from the i-th on.
RECURSIVE ApplySets(_, _, _, _, _)
ApplySets(item, sets, names, values, i) ==
    IF i > Len(sets) THEN item
    ELSE ApplySets(DictSet(item, names[sets[i][1]], values[sets[i][3]]),
                   sets, names, values, i + 1)

\* item after the removals from the i-th on.
RECURSIVE ApplyRemoves(_, _, _, _)
ApplyRemoves(item, removes, names, i) ==
    IF i > Len(removes) THEN item
    ELSE ApplyRemoves(DictDel(item, names[removes[i][1]]), removes, names, i + 1)

\* The name placeholders of a parsed expression, those of the SET clause
\* first.
NamePlaceholders(parsed) ==
    [i \in 1..(Len(parsed.sets) + Len(parsed.removes)) |->
        IF i <= Len(parsed.sets)
            THEN parsed.sets[i][1]
            ELSE parsed.removes[i - Len(parsed.sets)][1]]

\* DynamoDB rejects an expression it cannot read, a key that does not fit
\* the schema, a placeholder that is not defined or not used, an attribute
\* named twice and a change to a key attribute.
ValidUpdate(kwargs, parsed, namePhs) ==
    LET names == KwargOr(kwargs, "ExpressionAttributeNames")
        values == KwargOr(kwargs, "ExpressionAttributeValues")
    IN  /\ parsed.ok
        /\ DOMAIN kwargs.Key = KeyNameSet
        /\ {namePhs[i] : i \in DOMAIN namePhs} = DOMAIN names
        /\ {parsed.sets[i][3] : i \in 1..Len(parsed.sets)} = DOMAIN values
        /\ \A i, j \in DOMAIN namePhs :
                i # j => names[namePhs[i]] # names[namePhs[j]]
        /\ \A i \in DOMAIN namePhs : names[namePhs[i]] \notin KeyNameSet

\* Table.update_item: the SET and REMOVE clauses are applied to the item,
\* which is created when it does not exist.
table_update_item(tbl, kwargs) ==
    Bind(ParseUpdateExpression(kwargs.UpdateExpression), LAMBDA parsed :
        LET names == KwargOr(kwargs, "ExpressionAttributeNames")
            values == KwargOr(kwargs, "ExpressionAttributeValues")
            key == NativeKey(kwargs.Key)
            old == IF key \in DOMAIN tbl THEN tbl[key] ELSE kwargs.Key
            new == ApplyRemoves(ApplySets(old, parsed.sets, names, values, 1),
                                parsed.removes, names, 1)
        IN  IF Bind(NamePlaceholders(parsed), LAMBDA namePhs :
                        ValidUpdate(kwargs, parsed, namePhs))
                THEN [raised |-> "", table |-> (key :> new) @@ tbl]
                ELSE [raised |-> "ClientError", table |-> tbl])

(***************************************************************************)
(* DynamoDBMapping.  Every method takes the table as it is when the method *)
(* is called and `down`: whether the store fails the calls made on it (a   *)
(* botocore ClientError).                                                  *)
(***************************************************************************)
\* A bug: no check of the number of key values; zip stops at the shorter.
create_key_param_unchecked(keys) ==
    [raised |-> "",
     ret |-> DictZip(key_names, Iterate(create_tuple_keys(keys)))]

_create_key_param(keys) ==
    Bind(create_tuple_keys(keys), LAMBDA tuple_keys :
        IF PyLen(tuple_keys) # Len(key_names)
            THEN [raised |-> "ValueError", ret |-> EmptyDict]
            ELSE [raised |-> "",
                  ret |-> DictZip(key_names, Iterate(tuple_keys))])

\* DynamoDBItemAccessor.__init__: a dict holding a copy of the item.
DynamoDBItemAccessor(item_keys, initial_data) ==
    [item_keys |-> item_keys, data |-> initial_data]

\* A bug: a key without an item gives an empty accessor.
get_item_missing_as_empty(tbl, keys, kwargs, down) ==
    Bind(_create_key_param(keys), LAMBDA key_params :
        LET call == Call("get_item", DictSet(kwargs, "Key", key_params.ret))
            response == table_get_item(tbl, call.kwargs)
        IN  IF key_params.raised # ""
                THEN Done(key_params.raised, None, <<>>, tbl, <<>>, <<>>)
            ELSE IF down \/ DOMAIN key_params.ret # KeyNameSet
                THEN Done("ClientError", None, <<call>>, tbl, <<>>, <<"DEBUG">>)
            ELSE IF "Item" \notin DOMAIN response
                THEN Done("", DynamoDBItemAccessor(keys, EmptyDict), <<call>>,
                          tbl, <<>>, <<"DEBUG">>)
            ELSE Done("", DynamoDBItemAccessor(keys, response.Item), <<call>>,
                      tbl, <<>>, <<"DEBUG">>))

get_item(tbl, keys, kwargs, down) ==
    Bind(_create_key_param(keys), LAMBDA key_params :
        LET call == Call("get_item", DictSet(kwargs, "Key", key_params.ret))
            response == table_get_item(tbl, call.kwargs)
        IN  IF key_params.raised # ""
                THEN Done(key_params.raised, None, <<>>, tbl, <<>>, <<>>)
            ELSE IF down \/ DOMAIN key_params.ret # KeyNameSet
                THEN Done("ClientError", None, <<call>>, tbl, <<>>, <<"DEBUG">>)
            ELSE IF "Item" \notin DOMAIN response
                THEN Done("KeyError", None, <<call>>, tbl, <<>>, <<"DEBUG">>)
            ELSE Done("", DynamoDBItemAccessor(keys, response.Item), <<call>>,
                      tbl, <<>>, <<"DEBUG">>))

\* DynamoDBMapping.__getitem__
mapping_getitem(tbl, key, down) == get_item(tbl, key, EmptyDict, down)

\* A bug: the KeyError of the lookup is not caught.
keys_contains_uncaught(tbl, key, down) ==
    Bind(mapping_getitem(tbl, key, down), LAMBDA got :
        IF got.raised # "" THEN got ELSE [got EXCEPT !.ret = TRUE])

\* DynamoDBKeysView.__contains__: only KeyError is caught.
keys_contains(tbl, key, down) ==
    Bind(mapping_getitem(tbl, key, down), LAMBDA got :
        IF got.raised = "KeyError" THEN [got EXCEPT !.raised = "", !.ret = FALSE]
        ELSE IF got.raised # "" THEN got
        ELSE [got EXCEPT !.ret = TRUE])

\* A bug: the entries of the item are written over those of the key.
merge_item_over_keys(item, key_params) ==
    [_item |-> item @@ key_params, item |-> item]

\* _item = {}, then the entries of item, then those of key_params over them:
\* the dict that is put and the dict of the caller, which is only read.
merge_keys_over_item(item, key_params) ==
    [_item |-> key_params @@ item, item |-> item]

\* What set_item does, and the item of the caller as the call leaves it.
set_item(tbl, keys, item, kwargs, down) ==
    Bind(_create_key_param(keys), LAMBDA key_params :
    Bind(merge_keys_over_item(item, key_params.ret), LAMBDA merged :
    Bind(Call("put_item", DictSet(kwargs, "Item", merged._item)), LAMBDA call :
        IF key_params.raised # ""
            THEN ("item" :> item)
                    @@ Done(key_params.raised, None, <<>>, tbl, <<>>, <<>>)
        ELSE IF down \/ ~ (KeyNameSet \subseteq DOMAIN merged._item)
            THEN ("item" :> merged.item)
                    @@ Done("ClientError", None, <<call>>, tbl, <<>>, <<"DEBUG">>)
        ELSE ("item" :> merged.item)
                @@ Done("", None, <<call>>, table_put_item(tbl, call.kwargs),
                        <<>>, <<"DEBUG">>))))

put_item(tbl, keys, item, kwargs, down) == set_item(tbl, keys, item, kwargs, down)

\* The delete call of del_item, after the calls `checked` of the existence
\* check.
delete_call(tbl, key_params, kwargs, down, checked, checkLog) ==
    LET call == Call("delete_item", DictSet(kwargs, "Key", key_params.ret))
    IN  IF down \/ DOMAIN key_params.ret # KeyNameSet
            THEN Done("ClientError", None, Append(checked, call), tbl, <<>>,
                      Append(checkLog, "DEBUG"))
            ELSE Done("", None, Append(checked, call),
                      table_delete_item(tbl, call.kwargs), <<>>,
                      Append(checkLog, "DEBUG"))

\* A bug: the delete call is made whatever the existence check says.
del_item_whatever_found(tbl, keys, check_existing, kwargs, down) ==
    Bind(_create_key_param(keys), LAMBDA key_params :
        IF key_params.raised # ""
            THEN Done(key_params.raised, None, <<>>, tbl, <<>>, <<>>)
        ELSE IF check_existing
            THEN Bind(keys_contains(tbl, keys, down), LAMBDA found :
                    IF found.raised # ""
                        THEN Done(found.raised, None, found.calls, tbl, <<>>,
                                  found.logged)
                    ELSE delete_call(tbl, key_params, kwargs, down,
                                     found.calls, found.logged))
        ELSE delete_call(tbl, key_params, kwargs, down, <<>>, <<>>))

del_item(tbl, keys, check_existing, kwargs, down) ==
    Bind(_create_key_param(keys), LAMBDA key_params :
        IF key_params.raised # ""
            THEN Done(key_params.raised, None, <<>>, tbl, <<>>, <<>>)
        ELSE IF check_existing
            THEN Bind(keys_contains(tbl, keys, down), LAMBDA found :
                    IF found.raised # ""
                        THEN Done(found.raised, None, found.calls, tbl, <<>>,
                                  found.logged)
                    ELSE IF ~ found.ret
                        THEN Done("KeyError", None, found.calls, tbl, <<>>,
                                  found.logged)
                    ELSE delete_call(tbl, key_params, kwargs, down,
                                     found.calls, found.logged))
        ELSE delete_call(tbl, key_params, kwargs, down, <<>>, <<>>))

(***************************************************************************)
(* The update compiler of modify_item.                                     *)
(***************************************************************************)
NoParts ==
    [set_expression_parts |-> <<>>, remove_expression_parts |-> <<>>,
     attribute_names |-> EmptyDict, attribute_values |-> EmptyDict]

\* The loop over enumerate(modifications.items()), from index idx on.
RECURSIVE CompileLoop(_, _, _)
CompileLoop(modifications, idx, acc) ==
    IF idx >= Len(modifications) THEN acc
    ELSE LET attrib_key == modifications[idx + 1][1]
             attrib_value == modifications[idx + 1][2]
             attrib_key_ph == "#key" \o ToString(idx)
             attrib_value_ph == ":value" \o ToString(idx)
         IN  Bind([acc EXCEPT !.attribute_names =
                                DictSet(@, attrib_key_ph, attrib_key)],
                  LAMBDA named :
                    CompileLoop(modifications, idx + 1,
                        IF attrib_value = None
                            THEN [named EXCEPT !.remove_expression_parts =
                                                    Append(@, <<attrib_key_ph>>)]
                            ELSE [named EXCEPT
                                    !.set_expression_parts =
                                        Append(@, <<attrib_key_ph, " = ",
                                                    attrib_value_ph>>),
                                    !.attribute_values =
                                        DictSet(@, attrib_value_ph, attrib_value)]))

\* A bug: the remove clause comes first.
update_expression_parts_remove_first(compiled) ==
    (IF compiled.remove_expression_parts # <<>>
        THEN << <<"remove ">> \o Join(", ", compiled.remove_expression_parts) >>
        ELSE <<>>)
    \o (IF compiled.set_expression_parts # <<>>
        THEN << <<"set ">> \o Join(", ", compiled.set_expression_parts) >>
        ELSE <<>>)

\* update_expression_parts: the set clause, then the remove clause, each
\* when it has terms.
update_expression_parts_of(compiled) ==
    (IF compiled.set_expression_parts # <<>>
        THEN << <<"set ">> \o Join(", ", compiled.set_expression_parts) >>
        ELSE <<>>)
    \o (IF compiled.remove_expression_parts # <<>>
        THEN << <<"remove ">> \o Join(", ", compiled.remove_expression_parts) >>
        ELSE <<>>)

\* update_item_kwargs: the caller's kwargs, Key and UpdateExpression, and
\* the two placeholder maps, each when it is not empty.
update_item_kwargs_of(kwargs, key_params, update_expression, compiled) ==
    LET base == DictSet(DictSet(kwargs, "Key", key_params),
                        "UpdateExpression", update_expression)
        withValues ==
            IF compiled.attribute_values # EmptyDict
                THEN DictSet(base, "ExpressionAttributeValues",
                             compiled.attribute_values)
                ELSE base
    IN  IF compiled.attribute_names # EmptyDict
            THEN DictSet(withValues, "ExpressionAttributeNames",
                         compiled.attribute_names)
            ELSE withValues

\* The update_item call of modify_item.
update_call(tbl, update_item_kwargs, down) ==
    Bind(table_update_item(tbl, update_item_kwargs), LAMBDA updated :
        IF down \/ updated.raised # ""
            THEN Done("ClientError", None,
                      <<Call("update_item", update_item_kwargs)>>, tbl,
                      <<>>, <<"DEBUG">>)
            ELSE Done("", None, <<Call("update_item", update_item_kwargs)>>,
                      updated.table, <<>>, <<"DEBUG">>))

\* A bug: an empty modification is sent to the store as an empty expression.
modify_item_no_empty_check(tbl, keys, modifications, kwargs, down) ==
    Bind(_create_key_param(keys), LAMBDA key_params :
        IF key_params.raised # ""
            THEN Done(key_params.raised, None, <<>>, tbl, <<>>, <<>>)
        ELSE Bind(CompileLoop(modifications, 0, NoParts), LAMBDA compiled :
             Bind(update_expression_parts_of(compiled),
                  LAMBDA update_expression_parts :
                Bind(update_item_kwargs_of(kwargs, key_params.ret,
                        Join(" ", update_expression_parts), compiled),
                     LAMBDA update_item_kwargs :
                        update_call(tbl, update_item_kwargs, down)))))

modify_item(tbl, keys, modifications, kwargs, down) ==
    Bind(_create_key_param(keys), LAMBDA key_params :
        IF key_params.raised # ""
            THEN Done(key_params.raised, None, <<>>, tbl, <<>>, <<>>)
        ELSE Bind(CompileLoop(modifications, 0, NoParts), LAMBDA compiled :
             Bind(update_expression_parts_of(compiled),
                  LAMBDA update_expression_parts :
                IF update_expression_parts = <<>>
                    THEN Done("", None, <<>>, tbl, <<"UserWarning">>,
                              <<"WARNING">>)
                ELSE Bind(update_item_kwargs_of(kwargs, key_params.ret,
                            Join(" ", update_expression_parts), compiled),
                          LAMBDA update_item_kwargs :
                            update_call(tbl, update_item_kwargs, down)))))

(***************************************************************************)
(* DynamoDBItemAccessor.__setitem__: what happened in the parent mapping,  *)
(* the steps taken in order and the dict the accessor holds afterwards.    *)
(***************************************************************************)
ModifyStep(keys, modifications) ==
    [step |-> "modify_item", keys |-> keys, modifications |-> modifications]

\* The dict the caller passed as item, as a call of set_item leaves it.
ItemStep(item) == [step |-> "item", item |-> item]

LocalStep(key, value) ==
    [step |-> "dict.__setitem__", key |-> key, value |-> value]

\* A bug: the local copy is written before the store is.
accessor_setitem_local_first(tbl, acc, key, value, down) ==
    Bind(modify_item(tbl, acc.item_keys, <<<<key, value>>>>, EmptyDict, down),
         LAMBDA modified :
            [done |-> modified,
             steps |-> <<LocalStep(key, value),
                         ModifyStep(acc.item_keys, <<<<key, value>>>>)>>,
             data |-> DictSet(acc.data, key, value)])

accessor_setitem(tbl, acc, key, value, down) ==
    Bind(modify_item(tbl, acc.item_keys, <<<<key, value>>>>, EmptyDict, down),
         LAMBDA modified :
            IF modified.raised # ""
                THEN [done |-> modified,
                      steps |-> <<ModifyStep(acc.item_keys, <<<<key, value>>>>)>>,
                      data |-> acc.data]
                ELSE [done |-> modified,
                      steps |-> <<ModifyStep(acc.item_keys, <<<<key, value>>>>),
                                  LocalStep(key, value)>>,
                      data |-> DictSet(acc.data, key, value)])

(***************************************************************************)
(* The mapping specification: a program that holds one DynamoDBMapping and *)
(* at most one item accessor calls their methods one after the other.      *)
(* op describes the last call: its name, its arguments and what it did.    *)
(***************************************************************************)
KeyA == PyStr(<<"a">>)

KeyB == PyStr(<<"b">>)

ValueX == PyStr(<<"x">>)

\* The keys callers pass: primitives, a one-element tuple and a pair.
KeyInputs == { KeyA, KeyB, PyTuple(<<KeyA>>), PyTuple(<<KeyA, KeyB>>) }

\* The items callers pass to set_item; the last one names the partition key
\* attribute itself.
ItemInputs ==
    { EmptyDict, ("foo" :> ValueX), ("pk" :> KeyB) @@ ("foo" :> ValueX) }

\* The modifications callers pass to modify_item in this specification.
SmallModifications ==
    { <<>>, << <<"foo", ValueX>> >>, << <<"foo", None>> >>,
      << <<"pk", ValueX>> >> }

\* The schemas of the tables a mapping is built on: get_key_names gives the
\* HASH attribute, then the RANGE attribute when there is one.
KeySchemas == { <<"pk">>, <<"pk", "sk">> }

NoAccessor == [bound |-> FALSE]

\* Whether a method wrote to the table.
Wrote(done) ==
    /\ done.raised = ""
    /\ \E i \in 1..Len(done.calls) :
            done.calls[i].method \in {"put_item", "delete_item", "update_item"}

\* The accessor the program holds after a mapping method ran: it is `clean`
\* as long as nothing but the accessor itself has written to the table.
AfterMappingCall(done) ==
    IF accessor.bound /\ Wrote(done)
        THEN [accessor EXCEPT !.clean = FALSE]
        ELSE accessor

Record(name, args, down, done, steps) ==
    [name |-> <<name>>, args |-> args, down |-> down, raised |-> done.raised,
     ret |-> done.ret, calls |-> done.calls, warned |-> done.warned,
     logged |-> done.logged, steps |-> steps]

Init ==
    /\ key_names \in KeySchemas
    /\ table = EmptyDict
    /\ op = NoOp
    /\ accessor = NoAccessor
    /\ iters = <<>>

GetItem ==
    \E keys \in KeyInputs, down \in BOOLEAN :
        \E done \in {get_item(table, keys, EmptyDict, down)} :
            /\ op' = Record("get_item", [keys |-> keys], down, done, <<>>)
            /\ accessor' = IF done.raised = ""
                              THEN [bound |-> TRUE,
                                    item_keys |-> done.ret.item_keys,
                                    data |-> done.ret.data, clean |-> TRUE]
                              ELSE accessor
            /\ UNCHANGED <<key_names, table, iters>>

\* mapping[key]
MappingGetItem ==
    \E key \in KeyInputs, down \in BOOLEAN :
        \E done \in {mapping_getitem(table, key, down)} :
            /\ op' = Record("__getitem__", [keys |-> key], down, done, <<>>)
            /\ accessor' = IF done.raised = ""
                              THEN [bound |-> TRUE,
                                    item_keys |-> done.ret.item_keys,
                                    data |-> done.ret.data, clean |-> TRUE]
                              ELSE accessor
            /\ UNCHANGED <<key_names, table, iters>>

KeysContains ==
    \E keys \in KeyInputs, down \in BOOLEAN :
        \E done \in {keys_contains(table, keys, down)} :
            /\ op' = Record("keys().__contains__", [keys |-> keys], down,
                         done, <<>>)
            /\ UNCHANGED <<key_names, table, accessor, iters>>

SetItem ==
    \E keys \in KeyInputs, item \in ItemInputs, down \in BOOLEAN :
        \E done \in {set_item(table, keys, item, EmptyDict, down)} :
            /\ op' = Record("set_item", [keys |-> keys, item |-> item], down,
                         done, <<ItemStep(done.item)>>)
            /\ table' = done.table
            /\ accessor' = AfterMappingCall(done)
            /\ UNCHANGED <<key_names, iters>>

PutItem ==
    \E keys \in KeyInputs, item \in ItemInputs, down \in BOOLEAN :
        \E done \in {put_item(table, keys, item, EmptyDict, down)} :
            /\ op' = Record("put_item", [keys |-> keys, item |-> item], down,
                         done, <<ItemStep(done.item)>>)
            /\ table' = done.table
            /\ accessor' = AfterMappingCall(done)
            /\ UNCHANGED <<key_names, iters>>

DelItem ==
    \E keys \in KeyInputs, check_existing \in BOOLEAN, down \in BOOLEAN :
        \E done \in {del_item(table, keys, check_existing, EmptyDict, down)} :
            /\ op' = Record("del_item",
                            [keys |-> keys, check_existing |-> check_existing],
                            down, done, <<>>)
            /\ table' = done.table
            /\ accessor' = AfterMappingCall(done)
            /\ UNCHANGED <<key_names, iters>>

ModifyItem(Keys, Modifications) ==
    \E keys \in Keys, modifications \in Modifications, down \in BOOLEAN :
        \E done \in {modify_item(table, keys, modifications, EmptyDict, down)} :
            /\ op' = Record("modify_item",
                            [keys |-> keys, modifications |-> modifications],
                            down, done, <<>>)
            /\ table' = done.table
            /\ accessor' = AfterMappingCall(done)
            /\ UNCHANGED <<key_names, iters>>

\* accessor[key] = value
AccessorSetItem ==
    /\ accessor.bound
    /\ \E key \in {"foo", "pk"}, value \in {ValueX, None}, down \in BOOLEAN :
        \E set \in {accessor_setitem(table, accessor, key, value, down)} :
            /\ op' = Record("accessor.__setitem__",
                            [key |-> key, value |-> value], down, set.done,
                            set.steps)
            /\ table' = set.done.table
            /\ accessor' = [accessor EXCEPT !.data = set.data]
            /\ UNCHANGED <<key_names, iters>>

\* accessor[key], key in accessor, list(accessor): the methods of dict,
\* which DynamoDBItemAccessor inherits and does not override.
AccessorRead ==
    /\ accessor.bound
    /\ \E key \in {"foo", "pk"} :
        \/ op' = [name |-> <<"accessor.__getitem__">>, args |-> [key |-> key],
                  down |-> FALSE,
                  raised |-> IF key \in DOMAIN accessor.data THEN "" ELSE "KeyError",
                  ret |-> IF key \in DOMAIN accessor.data
                             THEN accessor.data[key] ELSE None,
                  calls |-> <<>>, warned |-> <<>>, logged |-> <<>>,
                  steps |-> <<>>]
        \/ op' = [name |-> <<"accessor.__contains__">>, args |-> [key |-> key],
                  down |-> FALSE,
                  raised |-> "", ret |-> key \in DOMAIN accessor.data,
                  calls |-> <<>>, warned |-> <<>>, logged |-> <<>>,
                  steps |-> <<>>]
        \/ op' = [name |-> <<"accessor.__iter__">>, args |-> EmptyDict,
                  down |-> FALSE,
                  raised |-> "", ret |-> DOMAIN accessor.data,
                  calls |-> <<>>, warned |-> <<>>, logged |-> <<>>,
                  steps |-> <<>>]
    /\ UNCHANGED <<key_names, table, accessor, iters>>

Next ==
    \/ GetItem
    \/ MappingGetItem
    \/ KeysContains
    \/ SetItem
    \/ PutItem
    \/ DelItem
    \/ ModifyItem(KeyInputs, SmallModifications)
    \/ AccessorSetItem
    \/ AccessorRead

Spec == Init /\ [][Next]_vars

(***************************************************************************)
(* The update compiler specification: modify_item is called with every     *)
(* ordered mapping of at most MaxMods entries on a key of each schema.     *)
(***************************************************************************)
ModAttributes == {"foo", "bar", "baz"}

\* The ordered mappings of at most MaxMods distinct attributes to a value or
\* to None.
Modifications ==
    { m \in SeqsUpTo(ModAttributes \X {ValueX, None}, MaxMods) :
        \A i, j \in 1..Len(m) : i # j => m[i][1] # m[j][1] }

InitModify ==
    /\ key_names \in KeySchemas
    /\ table = EmptyDict
    /\ op = NoOp
    /\ accessor = NoAccessor
    /\ iters = <<>>

\* The key of the item that is modified: one that fits the schema.
ModifiedKeys ==
    { IF Len(key_names) = 1 THEN KeyA ELSE PyTuple(<<KeyA, KeyB>>) }

NextModify == ModifyItem(ModifiedKeys, Modifications)

SpecModify == InitModify /\ [][NextModify]_vars

(***************************************************************************)
(* Table.scan.  The store evaluates the items in the order of the hashes   *)
(* of their keys, at most PageCap of them for one request (the 1 MB of a   *)
(* page) and at most Limit when the request has one.  A response carries   *)
(* LastEvaluatedKey when the store stopped at that limit, be there items   *)
(* left or not.                                                            *)
(***************************************************************************)
PageCap == 2

MaxIters == 1

KeyC == PyStr(<<"c">>)

HashOrder == <<KeyB, KeyA, KeyC>>

Position(v) == CHOOSE i \in 1..Len(HashOrder) : HashOrder[i] = v

\* Where the store meets a native key in a scan: by partition value, then by
\* sort value.
ScanRank(k) ==
    IF Len(k) = 1
        THEN (Len(HashOrder) + 1) * Position(k[1])
        ELSE (Len(HashOrder) + 1) * Position(k[1]) + Position(k[2])

RECURSIVE ScanOrder(_)
ScanOrder(keys) ==
    IF keys = {} THEN <<>>
    ELSE Bind(CHOOSE k \in keys : \A other \in keys : ScanRank(k) <= ScanRank(other),
              LAMBDA first : <<first>> \o ScanOrder(keys \ {first}))

Min(a, b) == IF a < b THEN a ELSE b

\* The attributes of an item that a ProjectionExpression names, all of them
\* when the request has none.
Project(item, kwargs) ==
    IF "ProjectionExpression" \in DOMAIN kwargs
        THEN Bind(SplitOn(kwargs.ProjectionExpression, ", "), LAMBDA terms :
                [a \in {terms[i][1] : i \in 1..Len(terms)} \cap DOMAIN item
                    |-> item[a]])
        ELSE item

\* Whether an item passes the FilterExpression "attribute_exists(a)" of a
\* request; every item passes when the request has none.
Matches(item, kwargs) ==
    "FilterExpression" \in DOMAIN kwargs
        => kwargs.FilterExpression[2] \in DOMAIN item

PageOf(tbl, kwargs, remaining, limit) ==
    Bind(SubSeq(remaining, 1, Min(limit, Len(remaining))), LAMBDA evaluated :
    Bind(SelectSeq(evaluated, LAMBDA k : Matches(tbl[k], kwargs)),
         LAMBDA matching :
            IF Len(remaining) >= limit
                THEN [Items |-> [i \in 1..Len(matching) |->
                                    Project(tbl[matching[i]], kwargs)],
                      LastEvaluatedKey |->
                            DictZip(key_names, evaluated[Len(evaluated)])]
                ELSE [Items |-> [i \in 1..Len(matching) |->
                                    Project(tbl[matching[i]], kwargs)]]))

table_scan(tbl, kwargs) ==
    PageOf(tbl, kwargs,
           ScanOrder({k \in DOMAIN tbl :
                        "ExclusiveStartKey" \in DOMAIN kwargs
                            => ScanRank(k)
                                > ScanRank(NativeKey(kwargs.ExclusiveStartKey))}),
           IF "Limit" \in DOMAIN kwargs
                THEN Min(kwargs.Limit, PageCap) ELSE PageCap)

(***************************************************************************)
(* DynamoDBMapping.scan and the generators built on it.  A generator is    *)
(* the record of its frame (pc, response, idx) and of what it has done:    *)
(* the keyword arguments of its table.scan calls, their responses, the     *)
(* items the scan yielded and the values the consumer got.                 *)
(***************************************************************************)
NoResponse == [Items |-> <<>>]

\* A bug: the first page is requested when scan is called.
generator_eager(tbl, kind, kwargs) ==
    Bind(table_scan(tbl, kwargs), LAMBDA response :
        [kind |-> kind, kwargs |-> kwargs, pc |-> "created",
         response |-> response, idx |-> 0, requests |-> <<kwargs>>,
         responses |-> <<response>>, scanned |-> <<>>, yielded |-> <<>>])

\* Calling a generator function runs nothing of its body.
generator(tbl, kind, kwargs) ==
    [kind |-> kind, kwargs |-> kwargs, pc |-> "created",
     response |-> NoResponse, idx |-> 0, requests |-> <<>>,
     responses |-> <<>>, scanned |-> <<>>, yielded |-> <<>>]

\* The keyword arguments scan is called with: those of the caller, a
\* projection on the key attributes from __iter__, none from the views.
scan_kwargs(g) ==
    IF g.kind = "__iter__"
        THEN [ProjectionExpression |->
                Join(", ", [i \in 1..Len(key_names) |-> <<key_names[i]>>])]
        ELSE g.kwargs

\* response = self.table.scan(...)
Fetch(tbl, g, kwargs) ==
    Bind(table_scan(tbl, kwargs), LAMBDA response :
        [g EXCEPT !.response = response, !.idx = 0,
                  !.requests = Append(@, kwargs),
                  !.responses = Append(@, response)])

continuation_kwargs(response) ==
    [ExclusiveStartKey |-> response.LastEvaluatedKey]

\* A bug: "if" for "while", the scan ends after its second page.
RECURSIVE scan_loop_one_continuation(_, _)
scan_loop_one_continuation(tbl, g) ==
    IF g.idx < Len(g.response.Items)
        THEN [g EXCEPT !.idx = @ + 1, !.pc = "suspended",
                       !.scanned = Append(@, g.response.Items[g.idx + 1])]
    ELSE IF "LastEvaluatedKey" \in DOMAIN g.response /\ Len(g.requests) < 2
        THEN Bind(Fetch(tbl, g, continuation_kwargs(g.response)),
                  LAMBDA fetched : scan_loop_one_continuation(tbl, fetched))
    ELSE [g EXCEPT !.pc = "done"]

\* The loops of scan from where the generator stands to its next yield or
\* to its end.
RECURSIVE scan_loop(_, _)
scan_loop(tbl, g) ==
    IF g.idx < Len(g.response.Items)
        THEN [g EXCEPT !.idx = @ + 1, !.pc = "suspended",
                       !.scanned = Append(@, g.response.Items[g.idx + 1])]
    ELSE IF "LastEvaluatedKey" \in DOMAIN g.response
        THEN Bind(Fetch(tbl, g, continuation_kwargs(g.response)),
                  LAMBDA fetched : scan_loop(tbl, fetched))
    ELSE [g EXCEPT !.pc = "done"]

\* next() on the generator of scan: a finished or closed generator runs
\* nothing.
scan_next(tbl, g) ==
    IF g.pc \in {"done", "closed"} THEN g
    ELSE IF g.pc = "created"
        THEN Bind(Fetch(tbl, g, scan_kwargs(g)),
                  LAMBDA fetched : scan_loop(tbl, fetched))
    ELSE scan_loop(tbl, g)

_key_values_from_item(item) ==
    PyTuple([i \in 1..Len(key_names) |-> item[key_names[i]]])

\* A bug: the key values are given as the tuple they are collected in.
YieldOf_tuple_keys(kind, item) ==
    IF kind = "__iter__"
        THEN _key_values_from_item(item)
    ELSE IF kind = "items"
        THEN <<_key_values_from_item(item), item>>
    ELSE item

\* What the consumer gets for an item the scan yields.
YieldOf(kind, item) ==
    IF kind = "__iter__"
        THEN simplify_tuple_keys(_key_values_from_item(item))
    ELSE IF kind = "items"
        THEN <<simplify_tuple_keys(_key_values_from_item(item)), item>>
    ELSE item

\* next() on a generator of any kind.
generator_next(tbl, g) ==
    Bind(scan_next(tbl, g), LAMBDA after :
        IF after.pc = "suspended"
            THEN Bind(YieldOf(g.kind, after.scanned[Len(after.scanned)]),
                      LAMBDA value :
                        [gen |-> [after EXCEPT !.yielded = Append(@, value)],
                         raised |-> "", ret |-> value])
            ELSE [gen |-> after, raised |-> "StopIteration", ret |-> None])

\* A bug: the scan goes on to its end after the value was found.
RECURSIVE values_contains_exhaustive(_, _, _)
values_contains_exhaustive(tbl, g, value) ==
    Bind(scan_next(tbl, g), LAMBDA after :
        IF after.pc # "suspended"
            THEN [gen |-> after,
                  ret |-> \E i \in 1..Len(after.scanned) :
                                after.scanned[i] = value]
            ELSE values_contains_exhaustive(tbl, after, value))

\* DynamoDBValuesView.__contains__ from where the generator of its scan
\* stands: "v is value or v == value" on the items the scan yields, which
\* are dicts of str, equal when they have the same entries.
RECURSIVE values_contains(_, _, _)
values_contains(tbl, g, value) ==
    Bind(scan_next(tbl, g), LAMBDA after :
        IF after.pc # "suspended"
            THEN [gen |-> after, ret |-> FALSE]
        ELSE IF after.scanned[Len(after.scanned)] = value
            THEN [gen |-> after, ret |-> TRUE]
        ELSE values_contains(tbl, after, value))

\* The table.scan calls a generator made between two of its states.
ScanCalls(before, after) ==
    [i \in 1..(Len(after.requests) - Len(before.requests)) |->
        Call("scan", after.requests[Len(before.requests) + i])]

(***************************************************************************)
(* The scan specification: a program creates at most MaxIters iterators on *)
(* a table nobody writes to, and advances or abandons them in any order.   *)
(***************************************************************************)
ScanItem(pk, sk, rest) ==
    IF Len(key_names) = 1
        THEN ("pk" :> pk) @@ rest
        ELSE ("pk" :> pk) @@ ("sk" :> sk) @@ rest

\* The items of the tables that are scanned, in no order.
ScanPopulation ==
    { ScanItem(KeyA, KeyA, ("foo" :> ValueX)),
      ScanItem(KeyB, KeyA, EmptyDict),
      ScanItem(KeyC, KeyB, ("foo" :> ValueX)) }

ScanTables ==
    { [k \in {NativeKey(item) : item \in items} |->
            CHOOSE item \in items : NativeKey(item) = k]
        : items \in SUBSET ScanPopulation }

\* The keyword arguments callers pass to scan.
ScanKwargs ==
    { EmptyDict,
      [Limit |-> 1],
      [Limit |-> 1, FilterExpression |-> <<"attribute_exists(", "foo", ")">>],
      [ProjectionExpression |-> <<"foo">>] }

IterKinds == {"scan", "__iter__", "values", "items"}

InitScan ==
    /\ key_names \in KeySchemas
    /\ table \in ScanTables
    /\ op = NoOp
    /\ accessor = NoAccessor
    /\ iters = <<>>

\* mapping.scan(**kwargs), iter(mapping), iter(mapping.values()),
\* iter(mapping.items())
CreateIterator ==
    /\ Len(iters) < MaxIters
    /\ \E kind \in IterKinds, kwargs \in ScanKwargs :
        /\ kind # "scan" => kwargs = EmptyDict
        /\ \E g \in {generator(table, kind, kwargs)} :
            /\ iters' = Append(iters, g)
            /\ op' = [name |-> <<kind>>, args |-> [kwargs |-> kwargs],
                      down |-> FALSE, raised |-> "", ret |-> Len(iters) + 1,
                      calls |-> [i \in 1..Len(g.requests) |->
                                    Call("scan", g.requests[i])],
                      warned |-> <<>>, logged |-> <<>>, steps |-> <<>>]
    /\ UNCHANGED <<key_names, table, accessor>>

\* A bug: response is kept on the mapping, so that every generator reads the
\* response of the generator created last.
generator_frame_shared_response(its, i) ==
    [its[i] EXCEPT !.response = its[Len(its)].response]

\* The frame a generator runs in: response and the place in its items are
\* local variables of the call of scan that made the generator.
generator_frame(its, i) == its[i]

\* next(iterator)
NextItem ==
    \E i \in DOMAIN iters :
        \E r \in {generator_next(table, generator_frame(iters, i))} :
            /\ iters' = [iters EXCEPT ![i] = r.gen]
            /\ op' = [name |-> <<"next">>, args |-> [iterator |-> i],
                      down |-> FALSE, raised |-> r.raised, ret |-> r.ret,
                      calls |-> ScanCalls(iters[i], r.gen),
                      warned |-> <<>>,
                      logged |-> IF iters[i].pc = "created"
                                    THEN <<"DEBUG">> ELSE <<>>,
                      steps |-> <<>>]
            /\ UNCHANGED <<key_names, table, accessor>>

\* The consumer abandons an iterator it has not exhausted: the generator is
\* closed where it stands.
Abandon ==
    \E i \in DOMAIN iters :
        /\ iters[i].pc \in {"created", "suspended"}
        /\ iters' = [iters EXCEPT ![i].pc = "closed"]
        /\ op' = [name |-> <<"close">>, args |-> [iterator |-> i],
                  down |-> FALSE, raised |-> "", ret |-> None,
                  calls |-> <<>>, warned |-> <<>>, logged |-> <<>>,
                  steps |-> <<>>]
        /\ UNCHANGED <<key_names, table, accessor>>

\* The values callers look for: the items of the population and one that
\* has the key of an item and not its other attributes.
ContainsInputs == ScanPopulation \cup { ScanItem(KeyA, KeyA, EmptyDict) }

\* value in mapping.values(): steps holds the generator of the scan as the
\* call leaves it.
ValuesContains ==
    \E value \in ContainsInputs :
        \E r \in {values_contains(table, generator(table, "scan", EmptyDict),
                                  value)} :
            /\ op' = [name |-> <<"values().__contains__">>,
                      args |-> [value |-> value], down |-> FALSE,
                      raised |-> "", ret |-> r.ret,
                      calls |-> [i \in 1..Len(r.gen.requests) |->
                                    Call("scan", r.gen.requests[i])],
                      warned |-> <<>>, logged |-> <<"DEBUG">>,
                      steps |-> <<r.gen>>]
            /\ UNCHANGED <<key_names, table, accessor, iters>>

NextScan ==
    \/ CreateIterator
    \/ NextItem
    \/ Abandon
    \/ ValuesContains

SpecScan == InitScan /\ [][NextScan]_vars

(***************************************************************************)
(* The two-iterator specification: a program holds two iterators on the    *)
(* same mapping, on a table nobody writes to, and advances or abandons     *)
(* either of them in any order.                                            *)
(***************************************************************************)
IteratorInputs ==
    { <<kind, kwargs>> \in IterKinds \X ScanKwargs :
        kind # "scan" => kwargs = EmptyDict }

InitPair ==
    /\ key_names \in KeySchemas
    /\ table \in ScanTables
    /\ op = NoOp
    /\ accessor = NoAccessor
    /\ \E first \in IteratorInputs, second \in IteratorInputs :
        iters = <<generator(table, first[1], first[2]),
                  generator(table, second[1], second[2])>>

NextPair ==
    \/ NextItem
    \/ Abandon

SpecPair == InitPair /\ [][NextPair]_vars

(***************************************************************************)
(* What the claims say of a key, stated without the codec.                 *)
(***************************************************************************)
\* The values of a key as the caller gave it: the elements of a tuple, or
\* the primitive alone.
GivenKeyValues(k) == IF k.type = "tuple" THEN k.items ELSE <<k>>

FitsSchema(k) == Len(GivenKeyValues(k)) = Len(key_names)

\* The native key parameters of a key that fits the schema:
\* {schema name i: key value i}.
NativeKeyParams(k) ==
    [n \in KeyNameSet |->
        GivenKeyValues(k)[CHOOSE i \in 1..Len(key_names) : key_names[i] = n]]

\* The methods of the calls made on the store, in order.
Methods(calls) == [i \in 1..Len(calls) |-> calls[i].method]

KeyAcceptingOperations ==
    { <<"get_item">>, <<"set_item">>, <<"put_item">>, <<"del_item">>,
      <<"modify_item">>, <<"keys().__contains__">> }

(***************************************************************************)
(* C2                                                                      *)
(***************************************************************************)
\* C2: when the key given to get_item, set_item, put_item, del_item (with or
\* without the existence check), modify_item or the keys view's containment
\* test has not as many values as the key schema has attributes, the
\* operation raises ValueError and makes no call on the store.
C2_CardinalityEnforced ==
    (op.name \in KeyAcceptingOperations /\ ~ FitsSchema(op.args.keys))
        => (op.raised = "ValueError" /\ op.calls = <<>>)

\* del_item with the existence check was given a pair on a table whose schema
\* is the partition key alone, and raised ValueError.
C2_Witness ==
    /\ op.name = <<"del_item">>
    /\ op.args.check_existing
    /\ key_names = <<"pk">>
    /\ op.args.keys = PyTuple(<<KeyA, KeyB>>)
    /\ op.raised = "ValueError"

RECURSIVE Joined(_, _)
Joined(parts, sep) ==
    IF parts = <<>> THEN ""
    ELSE IF Len(parts) = 1 THEN parts[1]
    ELSE parts[1] \o sep \o Joined(Tail(parts), sep)

\* The indices i, from 0, of the entries of m whose value is not None, and of
\* those whose value is None, in the order of m.
SetIndices(m) ==
    SelectSeq([i \in 1..Len(m) |-> i - 1], LAMBDA i : m[i + 1][2] # None)

RemoveIndices(m) ==
    SelectSeq([i \in 1..Len(m) |-> i - 1], LAMBDA i : m[i + 1][2] = None)

\* The expression the claim gives for the modification mapping m.
ClaimedExpression(m) ==
    LET setTerms == [j \in 1..Len(SetIndices(m)) |->
                        "#key" \o ToString(SetIndices(m)[j]) \o " = :value"
                            \o ToString(SetIndices(m)[j])]
        removeTerms == [j \in 1..Len(RemoveIndices(m)) |->
                            "#key" \o ToString(RemoveIndices(m)[j])]
        setClause == "set " \o Joined(setTerms, ", ")
        removeClause == "remove " \o Joined(removeTerms, ", ")
    IN  IF setTerms # <<>> /\ removeTerms # <<>>
            THEN setClause \o " " \o removeClause
        ELSE IF setTerms # <<>> THEN setClause
        ELSE removeClause

\* {#key{i}: a_i} for every entry i of m.
ClaimedNames(m) ==
    [ph \in {"#key" \o ToString(i - 1) : i \in 1..Len(m)} |->
        m[CHOOSE i \in 1..Len(m) : ph = "#key" \o ToString(i - 1)][1]]

\* {:value{i}: v_i} for the entries i of m whose value is not None.
ClaimedValues(m) ==
    [ph \in {":value" \o ToString(i - 1) : i \in {j \in 1..Len(m) : m[j][2] # None}} |->
        m[CHOOSE i \in 1..Len(m) : ph = ":value" \o ToString(i - 1)][2]]

\* C5: for a modification mapping that is not empty, modify_item makes one
\* update_item call whose ExpressionAttributeNames are {#key{i}: a_i} for
\* every entry, whose ExpressionAttributeValues are {:value{i}: v_i} for the
\* entries with a value, whose UpdateExpression is "set " and the
\* "#key{i} = :value{i}" terms joined by ", ", then "remove " and the "#key{i}"
\* terms of the None entries joined by ", ", one space between the clauses and
\* an empty clause left out, and whose Key is the native key of the key given.
C5_UpdateCompilation ==
    (/\ op.name = <<"modify_item">>
     /\ op.args.modifications # <<>>
     /\ FitsSchema(op.args.keys))
        => /\ Methods(op.calls) = <<"update_item">>
           /\ KwargOr(op.calls[1].kwargs, "ExpressionAttributeNames")
                = ClaimedNames(op.args.modifications)
           /\ KwargOr(op.calls[1].kwargs, "ExpressionAttributeValues")
                = ClaimedValues(op.args.modifications)
           /\ Text(op.calls[1].kwargs.UpdateExpression)
                = ClaimedExpression(op.args.modifications)
           /\ op.calls[1].kwargs.Key = NativeKeyParams(op.args.keys)

\* modify_item compiled a mapping that removes its first attribute and sets
\* its second: the indices of the two clauses are not in order.
C5_Witness ==
    /\ op.name = <<"modify_item">>
    /\ Len(op.args.modifications) = 2
    /\ op.args.modifications[1][2] = None
    /\ op.args.modifications[2][2] # None
    /\ Len(op.calls) = 1
    /\ Text(op.calls[1].kwargs.UpdateExpression)
            = "set #key1 = :value1 remove #key0"
    /\ op.raised = ""

(***************************************************************************)
(* C6                                                                      *)
(***************************************************************************)
\* C6: modify_item with an empty modification mapping and a key that fits the
\* schema makes no call on the store, emits one warning, raises nothing and
\* leaves the table as it was.
C6_EmptyModification ==
    [][(/\ op'.name = <<"modify_item">>
        /\ op'.args.modifications = <<>>
        /\ FitsSchema(op'.args.keys))
        => /\ op'.calls = <<>>
           /\ op'.warned = <<"UserWarning">>
           /\ op'.raised = ""
           /\ table' = table]_vars

\* modify_item was called with an empty mapping on the key of a stored item
\* while the store was failing its calls, and warned.
C6_Witness ==
    /\ op.name = <<"modify_item">>
    /\ op.args.modifications = <<>>
    /\ op.down
    /\ op.warned = <<"UserWarning">>
    /\ NativeKey(NativeKeyParams(op.args.keys)) \in DOMAIN table

(***************************************************************************)
(* C7                                                                      *)
(***************************************************************************)
AccessorReads ==
    { <<"accessor.__getitem__">>, <<"accessor.__contains__">>,
      <<"accessor.__iter__">> }

\* C7: accessor[a] = v calls the modify_item of the owning mapping once, with
\* the key of the accessor and the modification {a: v}; the local copy is
\* written after that call, never before it; when the call succeeds the local
\* value of a is v afterwards; a lookup, a containment test or an iteration on
\* the accessor makes no call on the store.
C7_WriteThrough ==
    /\ op.name = <<"accessor.__setitem__">>
        => /\ op.steps[1] = ModifyStep(accessor.item_keys,
                                       << <<op.args.key, op.args.value>> >>)
           /\ \A i \in 2..Len(op.steps) : op.steps[i].step # "modify_item"
           /\ op.raised = ""
                => /\ op.steps = <<op.steps[1],
                                   LocalStep(op.args.key, op.args.value)>>
                   /\ op.args.key \in DOMAIN accessor.data
                   /\ accessor.data[op.args.key] = op.args.value
    /\ op.name \in AccessorReads => op.calls = <<>>

\* accessor["foo"] = "x" went through: one update_item call was made and the
\* local copy holds "x".
C7_Witness ==
    /\ op.name = <<"accessor.__setitem__">>
    /\ op.args = [key |-> "foo", value |-> ValueX]
    /\ op.raised = ""
    /\ Methods(op.calls) = <<"update_item">>
    /\ accessor.data["foo"] = ValueX

(***************************************************************************)
(* C8                                                                      *)
(***************************************************************************)
\* C8: when the update that accessor[a] = v triggers fails, because the store
\* fails the update_item call or rejects it (a is a key attribute), the error
\* reaches the caller and the local copy of the accessor is what it was
\* before the write.
C8_FailureAtomicity ==
    [][(/\ op'.name = <<"accessor.__setitem__">>
        /\ (op'.down \/ op'.args.key \in KeyNameSet))
        => /\ op'.raised # ""
           /\ accessor'.data = accessor.data]_vars

\* The store failed the update of accessor["foo"] = "x" and the local copy
\* has no "foo".
C8_Witness ==
    /\ op.name = <<"accessor.__setitem__">>
    /\ op.args = [key |-> "foo", value |-> ValueX]
    /\ op.down
    /\ op.raised = "ClientError"
    /\ Methods(op.calls) = <<"update_item">>
    /\ "foo" \notin DOMAIN accessor.data

(***************************************************************************)
(* C9                                                                      *)
(***************************************************************************)
\* C9: from an accessor fetched for key k, after any sequence of successful
\* writes accessor[a] = v, v possibly None, and with no other writer to the
\* table, the dict the accessor holds equals the item stored under k.
C9_LocalEqualsRemote ==
    (accessor.bound /\ accessor.clean)
        => /\ NativeKey(NativeKeyParams(accessor.item_keys)) \in DOMAIN table
           /\ accessor.data
                = table[NativeKey(NativeKeyParams(accessor.item_keys))]

(***************************************************************************)
(* C3                                                                      *)
(***************************************************************************)
\* The items of a sequence of pages, in page order.
RECURSIVE PagesItems(_)
PagesItems(responses) ==
    IF responses = <<>> THEN <<>>
    ELSE responses[1].Items \o PagesItems(Tail(responses))

\* C3: a scan makes one request for each page the store answers with; every
\* request after the first starts at the LastEvaluatedKey of the response
\* just before it, so that no request follows a response without one; and an
\* iterator consumed to its end has yielded the items of the first page, then
\* those of the second, and so on to the last page, which is the first without
\* a LastEvaluatedKey.
C3_ScanPagination ==
    \A i \in DOMAIN iters :
        /\ Len(iters[i].requests) = Len(iters[i].responses)
        /\ \A j \in 2..Len(iters[i].requests) :
            /\ "LastEvaluatedKey" \in DOMAIN iters[i].responses[j - 1]
            /\ "ExclusiveStartKey" \in DOMAIN iters[i].requests[j]
            /\ iters[i].requests[j].ExclusiveStartKey
                    = iters[i].responses[j - 1].LastEvaluatedKey
        /\ iters[i].pc = "done"
            => /\ iters[i].responses # <<>>
               /\ "LastEvaluatedKey" \notin
                    DOMAIN iters[i].responses[Len(iters[i].responses)]
               /\ iters[i].scanned = PagesItems(iters[i].responses)
               /\ iters[i].kind = "scan" => iters[i].yielded = iters[i].scanned

\* A scan was consumed to its end: it took three requests and yielded three
\* items.
C3_Witness ==
    /\ op.name = <<"next">>
    /\ op.raised = "StopIteration"
    /\ \E i \in DOMAIN iters :
        /\ iters[i].kind = "scan"
        /\ iters[i].pc = "done"
        /\ Len(iters[i].requests) = 3
        /\ Len(iters[i].yielded) = 3

(***************************************************************************)
(* C4                                                                      *)
(***************************************************************************)
\* The number of the pages a generator received whose items the scan has all
\* yielded.
FullyConsumed(g) ==
    Cardinality({ j \in 1..Len(g.responses) :
                    Len(PagesItems(SubSeq(g.responses, 1, j))) <= Len(g.scanned) })

\* C4: calling scan, iter(mapping) or iterating a view makes no request; an
\* iterator nothing was asked of has made none; the requests an iterator has
\* made are at most one more than the pages it has yielded every item of; and
\* an abandoned iterator makes no more requests.
C4_ScanLaziness ==
    [][/\ op'.name \in {<<kind>> : kind \in IterKinds} => op'.calls = <<>>
       /\ \A i \in DOMAIN iters' :
            /\ iters'[i].pc = "created" => iters'[i].requests = <<>>
            /\ Len(iters'[i].requests) <= 1 + FullyConsumed(iters'[i])
       /\ \A i \in DOMAIN iters :
            iters[i].pc = "closed"
                => /\ iters'[i].pc = "closed"
                   /\ iters'[i].requests = iters[i].requests]_vars

\* next() was called on an iterator that was abandoned after its first page,
\* which had a LastEvaluatedKey: it made no request.
C4_Witness ==
    /\ op.name = <<"next">>
    /\ op.raised = "StopIteration"
    /\ op.calls = <<>>
    /\ iters[op.args.iterator].pc = "closed"
    /\ Len(iters[op.args.iterator].requests) = 1
    /\ "LastEvaluatedKey" \in DOMAIN iters[op.args.iterator].response

(***************************************************************************)
(* C11                                                                     *)
(***************************************************************************)
\* C11: get_item(k) and mapping[k], k fitting the schema, make one get_item
\* call on the store and no other, with Key pairing each schema attribute name
\* with the value of k at its place; when the store has no item under k they
\* raise KeyError and return nothing; when it has one they return an accessor
\* holding that item and bound to k.
C11_GetItem ==
    (/\ op.name \in {<<"get_item">>, <<"__getitem__">>}
     /\ FitsSchema(op.args.keys))
        => /\ op.calls
                = <<Call("get_item", [Key |-> NativeKeyParams(op.args.keys)])>>
           /\ (~ op.down
                /\ NativeKey(NativeKeyParams(op.args.keys)) \notin DOMAIN table)
                => /\ op.raised = "KeyError"
                   /\ op.ret = None
           /\ (~ op.down
                /\ NativeKey(NativeKeyParams(op.args.keys)) \in DOMAIN table)
                => /\ op.raised = ""
                   /\ op.ret.data
                        = table[NativeKey(NativeKeyParams(op.args.keys))]
                   /\ op.ret.item_keys = op.args.keys

\* mapping[("a", "b")] gave the accessor of a stored item that has a "foo".
C11_Witness ==
    /\ op.name = <<"__getitem__">>
    /\ op.args.keys = PyTuple(<<KeyA, KeyB>>)
    /\ op.raised = ""
    /\ "foo" \in DOMAIN op.ret.data
    /\ op.ret.data = table[<<KeyA, KeyB>>]

(***************************************************************************)
(* C12                                                                     *)
(***************************************************************************)
\* C12: set_item(k, it) and put_item(k, it), k fitting the schema, make one
\* put_item call on the store, with nothing but the item, and no other call;
\* the item put is it with every schema attribute set to the value of k at
\* its place, whatever it holds under that name; the dict of the caller is
\* left as it was; when the call succeeds the item is stored under k, and a
\* get_item(k) that comes next returns exactly the item put.
C12_SetItemUpsert ==
    [][/\ (/\ op'.name \in {<<"set_item">>, <<"put_item">>}
           /\ FitsSchema(op'.args.keys))
            => /\ op'.calls
                    = <<Call("put_item",
                             [Item |-> NativeKeyParams(op'.args.keys)
                                            @@ op'.args.item])>>
               /\ op'.steps = <<ItemStep(op'.args.item)>>
               /\ ~ op'.down
                    => /\ op'.raised = ""
                       /\ table' = (NativeKey(NativeKeyParams(op'.args.keys))
                                        :> (NativeKeyParams(op'.args.keys)
                                                @@ op'.args.item)) @@ table
       /\ (/\ op.name \in {<<"set_item">>, <<"put_item">>}
           /\ op.raised = ""
           /\ op'.name \in {<<"get_item">>, <<"__getitem__">>}
           /\ op'.args.keys = op.args.keys
           /\ ~ op'.down)
            => /\ op'.raised = ""
               /\ op'.ret.data
                    = NativeKeyParams(op.args.keys) @@ op.args.item]_vars

\* set_item("a", {"pk": "b", "foo": "x"}) stored {"pk": "a", "foo": "x"}
\* under "a", and nothing under "b".
C12_Witness ==
    /\ op.name = <<"set_item">>
    /\ op.args.keys = KeyA
    /\ op.args.item = ("pk" :> KeyB) @@ ("foo" :> ValueX)
    /\ op.raised = ""
    /\ table[<<KeyA>>] = ("pk" :> KeyA) @@ ("foo" :> ValueX)
    /\ <<KeyB>> \notin DOMAIN table

(***************************************************************************)
(* C13                                                                     *)
(***************************************************************************)
\* The items of a table in the order a scan without options meets them.
ItemsInScanOrder(tbl) ==
    [i \in 1..Cardinality(DOMAIN tbl) |-> tbl[ScanOrder(DOMAIN tbl)[i]]]

IsPrefix(s, t) == Len(s) <= Len(t) /\ s = SubSeq(t, 1, Len(s))

\* The places of a value in a sequence.
PlacesOf(value, items) == { i \in 1..Len(items) : items[i] = value }

\* C13: an iteration of mapping.values() makes table.scan calls only, the
\* first without options and each later one continuing the one before, and,
\* consumed to its end, has yielded every item of the table in scan order;
\* value in mapping.values() makes such calls only, is true exactly when an
\* item of the table equals the value, has then looked at the items up to the
\* first equal one and no further, and has asked for no page after the one
\* that holds it.
C13_ValuesView ==
    /\ \A i \in DOMAIN iters :
        iters[i].kind = "values"
            => /\ iters[i].requests # <<>> => iters[i].requests[1] = EmptyDict
               /\ IsPrefix(iters[i].yielded, ItemsInScanOrder(table))
               /\ iters[i].pc = "done"
                    => iters[i].yielded = ItemsInScanOrder(table)
    /\ (op.name = <<"next">> /\ iters[op.args.iterator].kind = "values")
        => \A j \in 1..Len(op.calls) : op.calls[j].method = "scan"
    /\ op.name = <<"values().__contains__">>
        => /\ op.ret = (PlacesOf(op.args.value, ItemsInScanOrder(table)) # {})
           /\ Len(op.calls) >= 1
           /\ \A j \in 1..Len(op.calls) : op.calls[j].method = "scan"
           /\ op.calls[1].kwargs = EmptyDict
           /\ \A j \in 2..Len(op.calls) :
                op.calls[j].kwargs
                    = [ExclusiveStartKey |->
                            op.steps[1].responses[j - 1].LastEvaluatedKey]
           /\ IsPrefix(op.steps[1].scanned, ItemsInScanOrder(table))
           /\ op.ret
                => /\ PlacesOf(op.args.value, op.steps[1].scanned)
                        = {Len(op.steps[1].scanned)}
                   /\ Len(op.steps[1].scanned)
                        > Len(PagesItems(SubSeq(op.steps[1].responses, 1,
                                    Len(op.steps[1].responses) - 1)))
           /\ ~ op.ret => op.steps[1].scanned = ItemsInScanOrder(table)

\* The value was found among the items of the first page of a table that
\* has more pages: one request was made.
C13_Witness ==
    /\ op.name = <<"values().__contains__">>
    /\ op.ret
    /\ Len(op.calls) = 1
    /\ "LastEvaluatedKey" \in DOMAIN op.steps[1].response
    /\ Len(op.steps[1].scanned) < Cardinality(DOMAIN table)

(***************************************************************************)
(* C14                                                                     *)
(***************************************************************************)
\* The key of an item as the claims give it: the value of the partition
\* attribute alone, or the pair of it and the value of the sort attribute.
SimplifiedKeyOf(item) ==
    IF Len(key_names) = 1
        THEN item[key_names[1]]
        ELSE PyTuple(<<item[key_names[1]], item[key_names[2]]>>)

\* C14: an iteration of mapping.items() makes table.scan calls only, the first
\* without options, and yields, for the items of the table in scan order, the
\* pair of the key of the item, built from its own key attributes, and the
\* item; consumed to its end it has yielded a pair for every item.
C14_ItemsView ==
    /\ \A i \in DOMAIN iters :
        iters[i].kind = "items"
            => /\ iters[i].requests # <<>> => iters[i].requests[1] = EmptyDict
               /\ Len(iters[i].yielded) <= Cardinality(DOMAIN table)
               /\ \A j \in 1..Len(iters[i].yielded) :
                    iters[i].yielded[j]
                        = <<SimplifiedKeyOf(ItemsInScanOrder(table)[j]),
                            ItemsInScanOrder(table)[j]>>
               /\ iters[i].pc = "done"
                    => Len(iters[i].yielded) = Cardinality(DOMAIN table)
    /\ (op.name = <<"next">> /\ iters[op.args.iterator].kind = "items")
        => \A j \in 1..Len(op.calls) : op.calls[j].method = "scan"

\* An iteration of the items of a table of three items, over two pages, came
\* to its end.
C14_Witness ==
    /\ op.name = <<"next">>
    /\ op.raised = "StopIteration"
    /\ iters[op.args.iterator].kind = "items"
    /\ Len(iters[op.args.iterator].yielded) = 3
    /\ Len(iters[op.args.iterator].requests) = 2
    /\ iters[op.args.iterator].yielded[1][1]
            = SimplifiedKeyOf(table[ScanOrder(DOMAIN table)[1]])

(***************************************************************************)
(* C15                                                                     *)
(***************************************************************************)
\* C15: k in mapping.keys(), k fitting the schema, makes one get_item call on
\* the store, with the native key of k, and no other call; it is true when
\* the store has an item under k and false when it has none, and raises
\* nothing in either case.
C15_KeysContains ==
    (op.name = <<"keys().__contains__">> /\ FitsSchema(op.args.keys))
        => /\ op.calls
                = <<Call("get_item", [Key |-> NativeKeyParams(op.args.keys)])>>
           /\ ~ op.down
                => /\ op.raised = ""
                   /\ op.ret = (NativeKey(NativeKeyParams(op.args.keys))
                                    \in DOMAIN table)

\* "b" in mapping.keys() was false on a table that holds an item under "a".
C15_Witness ==
    /\ op.name = <<"keys().__contains__">>
    /\ op.args.keys = KeyB
    /\ ~ op.down
    /\ op.raised = ""
    /\ Methods(op.calls) = <<"get_item">>
    /\ op.ret = FALSE
    /\ <<KeyA>> \in DOMAIN table

(***************************************************************************)
(* C16                                                                     *)
(***************************************************************************)
\* C16: an iteration of the mapping yields the key of every item of the
\* table in scan order, and every table.scan call it makes, the first and the
\* continuations alike, has the ProjectionExpression that lists the schema
\* attributes; every table.scan call of mapping.scan(**kwargs) has the options
\* of the caller.
C16_ProjectedScan ==
    \A i \in DOMAIN iters :
        /\ iters[i].kind = "__iter__"
            => /\ Len(iters[i].yielded) <= Cardinality(DOMAIN table)
               /\ \A j \in 1..Len(iters[i].yielded) :
                    iters[i].yielded[j]
                        = SimplifiedKeyOf(ItemsInScanOrder(table)[j])
               /\ iters[i].pc = "done"
                    => Len(iters[i].yielded) = Cardinality(DOMAIN table)
               /\ \A j \in 1..Len(iters[i].requests) :
                    /\ "ProjectionExpression" \in DOMAIN iters[i].requests[j]
                    /\ Text(iters[i].requests[j].ProjectionExpression)
                        = Joined(key_names, ", ")
        /\ iters[i].kind = "scan"
            => \A j \in 1..Len(iters[i].requests) :
                \A option \in DOMAIN iters[i].kwargs :
                    /\ option \in DOMAIN iters[i].requests[j]
                    /\ iters[i].requests[j][option] = iters[i].kwargs[option]

(***************************************************************************)
(* C17                                                                     *)
(***************************************************************************)
\* A generator after n calls of next() with nothing else running.
RECURSIVE ConsumedAlone(_, _, _)
ConsumedAlone(tbl, g, n) ==
    IF n = 0 THEN g
    ELSE Bind(generator_next(tbl, g).gen,
              LAMBDA after : ConsumedAlone(tbl, after, n - 1))

\* The calls of next() a generator has answered.
NextsOf(g) == Len(g.yielded) + (IF g.pc = "done" THEN 1 ELSE 0)

\* What a generator is after it answered as many calls of next() as g did,
\* alone, and was abandoned if g was.
AloneLike(tbl, g) ==
    Bind(ConsumedAlone(tbl, generator(tbl, g.kind, g.kwargs), NextsOf(g)),
         LAMBDA alone :
            IF g.pc = "closed" THEN [alone EXCEPT !.pc = "closed"] ELSE alone)

\* C17: of two iterators on the same mapping, advanced and abandoned in any
\* order, each starts every request after its first at the LastEvaluatedKey
\* of its own response just before, each has made the requests and yielded
\* the values it would have made and yielded alone, and a call of next() on
\* one, or abandoning it, leaves the other as it was.
C17_IndependentIterators ==
    [][/\ \A i \in DOMAIN iters' :
            /\ iters'[i] = AloneLike(table', iters'[i])
            /\ \A j \in 2..Len(iters'[i].requests) :
                iters'[i].requests[j].ExclusiveStartKey
                    = iters'[i].responses[j - 1].LastEvaluatedKey
       /\ op'.name \in {<<"next">>, <<"close">>}
            => \A i \in DOMAIN iters :
                i # op'.args.iterator => iters'[i] = iters[i]]_vars

\* The second iterator was abandoned after its first item and its first
\* request; the first iterator has made its second request and yielded an
\* item of it.
C17_Witness ==
    /\ Len(iters) = 2
    /\ op.name = <<"next">>
    /\ op.args.iterator = 1
    /\ op.raised = ""
    /\ Len(iters[1].requests) = 2
    /\ iters[2].pc = "closed"
    /\ Len(iters[2].yielded) = 1
    /\ Len(iters[2].requests) = 1

====
